---------------------------- MODULE Spec2Model ----------------------------
(***************************************************************************)
(* A model of invoice_ocr_matching.py: the field extraction                *)
(* (extract_fields), the ledger lookup (match_against_po) and the batch    *)
(* loop (process_invoices).                                                *)
(*                                                                         *)
(* A Python str is a sequence of one-character strings.  A Python dict is  *)
(* a sequence of <<key, value>> pairs in insertion order.  None is the     *)
(* value None below, which no str equals.  The alphabet is ASCII: \w, \s,  *)
(* \d and the case folding are those of a str pattern on ASCII text        *)
(* (\s includes the vertical tab and U+001C to U+001F).                    *)
(***************************************************************************)
EXTENDS Integers, Sequences, FiniteSets, TLC

VARIABLES
    folder,           \* the directory: a set of entries [name, readable, text]
    listing,          \* what os.listdir(pdf_folder) returned to this call
    ledgerSrc,        \* the ledger file: Missing, or the table read_csv yields
    pc,               \* position in process_invoices (or in a direct call)
    run,              \* 1 for the first call of process_invoices, 2 for the second
    purchase_orders,  \* local of process_invoices
    i,                \* index of the for loop in os.listdir(pdf_folder)
    text,             \* local
    fields,           \* local
    matched,          \* local
    results,          \* local
    output,           \* the file at output_csv
    printed,          \* the count of the summary line, NotPrinted before
    err,              \* the exception that ended the call, NoError otherwise
    writes,           \* number of to_csv calls of this call
    prev_output,      \* the file at output_csv when the second call started
    prev_listing,     \* what os.listdir returned to the first call
    prev_printed      \* the count the first call printed

vars == <<folder, listing, ledgerSrc, pc, run, purchase_orders, i, text, fields,
          matched, results, output, printed, err, writes, prev_output, prev_listing,
          prev_printed>>

-----------------------------------------------------------------------------
(* Bounds *)

\* texts given to extract_fields directly are made of at most MaxTokens tokens
MaxTokens == 3
\* a folder holds at most MaxEntries entries
MaxEntries == 3
\* a ledger given to match_against_po directly holds at most MaxRows rows
MaxRows == 2

-----------------------------------------------------------------------------
(* Characters and strings *)

None == <<"<None>">>
\* the bool values, as dict values and as the local matched
PyTrue == <<"<True>">>
PyFalse == <<"<False>">>

UpperCase == <<"A","B","C","D","E","F","G","H","I","J","K","L","M",
               "N","O","P","Q","R","S","T","U","V","W","X","Y","Z">>
LowerCase == <<"a","b","c","d","e","f","g","h","i","j","k","l","m",
               "n","o","p","q","r","s","t","u","v","w","x","y","z">>

Range(s) == {s[k] : k \in 1..Len(s)}

\* \d
DigitChars == {"0","1","2","3","4","5","6","7","8","9"}
\* \w
WordChars == Range(UpperCase) \cup Range(LowerCase) \cup DigitChars \cup {"_"}
\* The ASCII whitespace that has no escape in a string: each literal below
\* holds the one raw control character named.
\* U+000B, vertical tab
Ch_VT == ""
\* U+001C, file separator
Ch_FS == ""
\* U+001D, group separator
Ch_GS == ""
\* U+001E, record separator
Ch_RS == ""
\* U+001F, unit separator
Ch_US == ""

\* \s of a str pattern, on ASCII: the characters str.isspace() accepts
SpaceChars == {" ", "\t", "\n", "\r", "\f", Ch_VT, Ch_FS, Ch_GS, Ch_RS, Ch_US}
\* [\d,.]
AmountChars == DigitChars \cup {",", "."}

\* str.lower() of one character; also the folding of re.IGNORECASE
LowerChar(c) ==
    IF \E k \in 1..26 : UpperCase[k] = c
    THEN LowerCase[CHOOSE k \in 1..26 : UpperCase[k] = c]
    ELSE c

Lower(s) == [k \in 1..Len(s) |-> LowerChar(s[k])]

EndsWith(s, suffix) ==
    /\ Len(s) >= Len(suffix)
    /\ SubSeq(s, Len(s) - Len(suffix) + 1, Len(s)) = suffix

-----------------------------------------------------------------------------
(* dict *)

Keys(d) == [k \in 1..Len(d) |-> d[k][1]]

HasKey(d, key) == \E k \in 1..Len(d) : d[k][1] = key

Get(d, key) == d[CHOOSE k \in 1..Len(d) : d[k][1] = key][2]

\* d[key] = value: an existing key keeps its place
DictSet(d, key, value) ==
    IF HasKey(d, key)
    THEN [k \in 1..Len(d) |-> IF d[k][1] = key THEN <<key, value>> ELSE d[k]]
    ELSE Append(d, <<key, value>>)

-----------------------------------------------------------------------------
(* re.search with re.IGNORECASE, for the two patterns of extract_fields.   *)
(* Both have the shape  literal \s* [sep]? \s* ([class]+) .  The           *)
(* whitespace, the separator and the captured class are pairwise disjoint  *)
(* sets, so the greedy walk below visits the only split the backtracking   *)
(* matcher can accept at a given start.                                    *)

\* r"Invoice\s*#?\s*(\w+)"
NumPattern == [lit |-> <<"I","n","v","o","i","c","e">>, sep |-> {"#"}, cls |-> WordChars]
\* r"Total\s*[:\-]?\s*([\d,.]+)"
TotalPattern == [lit |-> <<"T","o","t","a","l">>, sep |-> {":", "-"}, cls |-> AmountChars]

NoMatch == [found |-> FALSE, start |-> 0, group1 |-> None]

RECURSIVE SkipWhile(_, _, _)
SkipWhile(s, p, class) ==
    IF p <= Len(s) /\ s[p] \in class THEN SkipWhile(s, p + 1, class) ELSE p

\* faulty variant: re.IGNORECASE left out
LitAtCaseSensitive(s, p, lit) ==
    /\ p + Len(lit) - 1 <= Len(s)
    /\ \A k \in 1..Len(lit) : s[p + k - 1] = lit[k]
LitAt(s, p, lit) ==
    /\ p + Len(lit) - 1 <= Len(s)
    /\ \A k \in 1..Len(lit) : LowerChar(s[p + k - 1]) = LowerChar(lit[k])

MatchAt(pat, s, p) ==
    LET a == p + Len(pat.lit)
        b == SkipWhile(s, a, SpaceChars)
        c == IF b <= Len(s) /\ s[b] \in pat.sep THEN b + 1 ELSE b
        d == SkipWhile(s, c, SpaceChars)
        e == SkipWhile(s, d, pat.cls)
    IN  IF LitAt(s, p, pat.lit) /\ e > d
        THEN [found |-> TRUE, start |-> p, group1 |-> SubSeq(s, d, e - 1)]
        ELSE NoMatch

\* faulty variant: the rightmost match
RECURSIVE SearchLastFrom(_, _, _)
SearchLastFrom(pat, s, p) ==
    IF p > Len(s) THEN NoMatch
    ELSE IF SearchLastFrom(pat, s, p + 1).found THEN SearchLastFrom(pat, s, p + 1)
    ELSE MatchAt(pat, s, p)
RECURSIVE SearchFrom(_, _, _)
SearchFrom(pat, s, p) ==
    IF p > Len(s) THEN NoMatch
    ELSE IF MatchAt(pat, s, p).found THEN MatchAt(pat, s, p)
    ELSE SearchFrom(pat, s, p + 1)

re_search(pat, s) == SearchFrom(pat, s, 1)

-----------------------------------------------------------------------------
(* extract_fields *)

EmptyFields ==
    << <<"invoice_number", None>>, <<"vendor", None>>,
       <<"date", None>>, <<"total", None>> >>

extract_fields(t) ==
    LET num_match == re_search(NumPattern, t)
        f1 == IF num_match.found
              THEN DictSet(EmptyFields, "invoice_number", num_match.group1)
              ELSE EmptyFields
        total_match == re_search(TotalPattern, t)
    IN  IF total_match.found
        THEN DictSet(f1, "total", total_match.group1)
        ELSE f1

-----------------------------------------------------------------------------
(* match_against_po *)

\* purchase_orders is a DataFrame: a sequence of <<column name, cells>> pairs.
\* A cell is [kind, val]: kind "str" for a Python str, "int64" for a number
\* (val its digits), "nan" for a missing value.
StrCell(s) == [kind |-> "str", val |-> s]
IntCell(s) == [kind |-> "int64", val |-> s]
\* an empty cell of the file, read as NaN
NaNCell == [kind |-> "nan", val |-> <<>>]

\* not x, for x an Optional[str]
Falsy(x) == x = None \/ x = <<>>

\* cell == x for x a str: a number never equals a str
\* faulty variant: letter case folded
CellEqFolded(cell, x) == cell.kind = "str" /\ Lower(cell.val) = Lower(x)
CellEq(cell, x) == cell.kind = "str" /\ cell.val = x

\* x in values
ValuesContain(values, x) == \E k \in 1..Len(values) : CellEq(values[k], x)

\* faulty variant: line 62 left out
match_unguarded(f, po) ==
    IF ~HasKey(po, "InvoiceNumber")
    THEN [raised |-> TRUE, value |-> PyFalse]
    ELSE [raised |-> FALSE,
          value |-> IF ValuesContain(Get(po, "InvoiceNumber"), Get(f, "invoice_number"))
                    THEN PyTrue ELSE PyFalse]
\* [raised |-> a KeyError was raised, value |-> the bool returned otherwise]
match_against_po(f, po) ==
    IF Falsy(Get(f, "invoice_number"))
    THEN [raised |-> FALSE, value |-> PyFalse]
    ELSE IF ~HasKey(po, "InvoiceNumber")
    THEN [raised |-> TRUE, value |-> PyFalse]
    ELSE [raised |-> FALSE,
          value |-> IF ValuesContain(Get(po, "InvoiceNumber"), Get(f, "invoice_number"))
                    THEN PyTrue ELSE PyFalse]

-----------------------------------------------------------------------------
(* extract_text_from_pdf, os.listdir, the filter *)

\* [raised |-> pdfplumber.open raised, text |-> the text returned otherwise]
\* faulty variant: a failure yields the empty text
extract_text_swallowing(entry) == [raised |-> FALSE, text |-> entry.text]
extract_text_from_pdf(entry) ==
    IF entry.readable
    THEN [raised |-> FALSE, text |-> entry.text]
    ELSE [raised |-> TRUE, text |-> <<>>]

DotPdf == <<".", "p", "d", "f">>

\* fname.lower().endswith('.pdf')
\* faulty variant: lower() left out
QualifiesCaseSensitive(fname) == EndsWith(fname, DotPdf)
Qualifies(fname) == EndsWith(Lower(fname), DotPdf)

-----------------------------------------------------------------------------
(* results.append, pd.DataFrame(results).to_csv(output_csv, index=False) *)

\* fields['file'] = fname; fields['matched'] = matched
Record(f, fname, m) == DictSet(DictSet(f, "file", fname), "matched", m)

\* results.append(fields)
\* faulty variant: one dict object shared by all records
AppendAliased(rs, rec) == [k \in 1..(Len(rs) + 1) |-> rec]
AppendRecord(rs, rec) == Append(rs, rec)

RECURSIVE AddKeys(_, _, _)
AddKeys(acc, keys, k) ==
    IF k > Len(keys) THEN acc
    ELSE AddKeys(IF keys[k] \in Range(acc) THEN acc ELSE Append(acc, keys[k]), keys, k + 1)

\* the columns of DataFrame(list of dicts): the keys, in order of first appearance
RECURSIVE Columns(_, _, _)
Columns(acc, rs, k) ==
    IF k > Len(rs) THEN acc ELSE Columns(AddKeys(acc, Keys(rs[k]), 1), rs, k + 1)

DataFrame(rs) ==
    LET cols == Columns(<<>>, rs, 1)
    IN  [columns |-> cols,
         rows |-> [r \in 1..Len(rs) |->
                     [c \in 1..Len(cols) |->
                        IF HasKey(rs[r], cols[c]) THEN Get(rs[r], cols[c]) ELSE None]]]

\* a cell as to_csv writes it
CsvCell(v) ==
    CASE v = None -> <<>>
      [] v = PyTrue -> <<"T", "r", "u", "e">>
      [] v = PyFalse -> <<"F", "a", "l", "s", "e">>
      [] OTHER -> v

NotWritten == [written |-> FALSE, header |-> <<>>, rows |-> <<>>]

CsvOf(df) ==
    [written |-> TRUE,
     header |-> df.columns,
     rows |-> [r \in 1..Len(df.rows) |->
                 [c \in 1..Len(df.columns) |-> CsvCell(df.rows[r][c])]]]

\* df.to_csv(path, index=False) on a path that holds `existing`: the file is replaced
\* faulty variant: mode="a"
to_csv_appending(existing, df) ==
    IF existing.written
    THEN [written |-> TRUE, header |-> existing.header, rows |-> existing.rows \o CsvOf(df).rows]
    ELSE CsvOf(df)
to_csv(existing, df) == CsvOf(df)

-----------------------------------------------------------------------------
(* Inputs *)

S_A1 == <<"A", "1">>
S_A123 == <<"A", "1", "2", "3">>
S_a123 == <<"a", "1", "2", "3">>
S_12 == <<"1", "2">>

RECURSIVE Concats(_, _)
Concats(parts, n) ==
    IF n = 0 THEN {<<>>}
    ELSE LET shorter == Concats(parts, n - 1)
         IN  shorter \cup {t \o part : t \in shorter, part \in parts}

Tokens ==
    { <<"I","n","v","o","i","c","e">>, <<"i","N","V","O","I","C","E">>,
      <<"#">>, <<" ">>, S_A1, <<"7">>,
      <<"T","o","t","a","l">>, <<"t","O","T","A","L">>,
      <<":">>, <<"1", ",", "5", ".">> }

\* "Invoice #A100\nTotal: 250.00"
Text_Scenario1 ==
    <<"I","n","v","o","i","c","e"," ","#","A","1","0","0","\n",
      "T","o","t","a","l",":"," ","2","5","0",".","0","0">>
\* "Invoice#12345abc"
Text_Unanchored ==
    <<"I","n","v","o","i","c","e","#","1","2","3","4","5","a","b","c">>
\* "Total: 7\nTOTAL - 1,5."
Text_TwoTotals ==
    <<"T","o","t","a","l",":"," ","7","\n","T","O","T","A","L"," ","-"," ","1",",","5",".">>
\* "Total due\nTotal: 7"
Text_TotalDue ==
    <<"T","o","t","a","l"," ","d","u","e","\n","T","o","t","a","l",":"," ","7">>
\* "Invoice: 7 invoice a1"
Text_TwoInvoices ==
    <<"I","n","v","o","i","c","e",":"," ","7"," ","i","n","v","o","i","c","e"," ","a","1">>
\* "Invoice \t# \n_x9-2"
Text_Spaced ==
    <<"I","n","v","o","i","c","e"," ","\t","#"," ","\n","_","x","9","-","2">>

\* "Invoice\x0b#\x1cA1\x1dTotal\x1e:\x1f7"
Text_ControlSpaces ==
    <<"I","n","v","o","i","c","e",Ch_VT,"#",Ch_FS,"A","1",Ch_GS,
      "T","o","t","a","l",Ch_RS,":",Ch_US,"7">>

SampleTexts ==
    {Text_Scenario1, Text_Unanchored, Text_TwoTotals, Text_TotalDue,
     Text_TwoInvoices, Text_Spaced, Text_ControlSpaces}

\* the texts extract_fields is called on directly
TextInputs == Concats(Tokens, MaxTokens) \cup SampleTexts

\* the records match_against_po is called on directly: what extract_fields
\* returns, invoice_number None or a non-empty run of word characters
FieldInputs ==
    {DictSet(EmptyFields, "invoice_number", v) :
        v \in {None, S_A1, S_A123, S_a123, S_12}}

\* the cells of an object column read by pd.read_csv: str, or NaN for an
\* empty cell
ObjectCells ==
    {StrCell(S_A123), StrCell(S_a123), StrCell(S_A123 \o <<" ">>), StrCell(S_12),
     NaNCell}
\* the cells of an int64 column
IntCells == {IntCell(S_12), IntCell(<<"7">>)}

\* a str cell read_csv keeps as str: not all digits
NonNumeric(cell) ==
    cell.kind = "str" /\ \E k \in 1..Len(cell.val) : cell.val[k] \notin DigitChars

\* the columns read_csv yields, each of one dtype: object columns hold a str
\* that is no number, int64 columns hold integers only
LedgerColumns ==
    {c \in Concats({<<x>> : x \in ObjectCells}, MaxRows) :
        c = <<>> \/ \E k \in 1..Len(c) : NonNumeric(c[k])}
    \cup {c \in Concats({<<x>> : x \in IntCells}, MaxRows) : c # <<>>}

\* a DataFrame with the InvoiceNumber column
Ledger(cells) == << <<"PO", cells>>, <<"InvoiceNumber", cells>> >>
\* a DataFrame without it
LedgerNoColumn == << <<"PO", <<StrCell(S_A1)>>>>, <<"Invoice", <<StrCell(S_A1)>>>> >>

\* the ledgers match_against_po is called on directly
LedgerInputs == {Ledger(c) : c \in LedgerColumns} \cup {LedgerNoColumn}

\* the ledgers of the calls extract_fields, then match_against_po
PipelineLedgers == {LedgerNoColumn, Ledger(<<>>), Ledger(<<StrCell(S_A1), StrCell(<<"7">>)>>)}

\* "Invoice #A1\nTotal: 5.0"
Doc_A1 ==
    <<"I","n","v","o","i","c","e"," ","#","A","1","\n","T","o","t","a","l",":"," ","5",".","0">>
\* "invoice a1"
Doc_a1 == <<"i","n","v","o","i","c","e"," ","a","1">>
\* "Total due"
Doc_NoFields == <<"T","o","t","a","l"," ","d","u","e">>

PdfNames == { <<"a", ".", "p", "d", "f">>, <<"B", ".", "P", "d", "F">> }
OtherNames == { <<"c", ".", "t", "x", "t">>, <<"d", "p", "d", "f">> }

Entries ==
    {[name |-> n, readable |-> TRUE, text |-> t] :
        n \in PdfNames, t \in {Doc_A1, Doc_a1, Doc_NoFields, <<>>}}
    \cup {[name |-> n, readable |-> FALSE, text |-> <<>>] : n \in PdfNames \cup OtherNames}

\* the folders: sets of entries of distinct names
Folders(n) ==
    {S \in SUBSET Entries :
        Cardinality(S) <= n /\ \A a, b \in S : a.name = b.name => a = b}

\* os.listdir: the entries of the folder in an arbitrary order
RECURSIVE Enumerations(_)
Enumerations(S) ==
    IF S = {} THEN {<<>>}
    ELSE UNION {{Append(order, e) : order \in Enumerations(S \ {e})} : e \in S}

LedgerFiles ==
    {[exists |-> FALSE, table |-> <<>>],
     [exists |-> TRUE, table |-> LedgerNoColumn],
     [exists |-> TRUE, table |-> Ledger(<<>>)],
     [exists |-> TRUE, table |-> Ledger(<<StrCell(S_A1)>>)],
     [exists |-> TRUE, table |-> Ledger(<<StrCell(<<"A","1"," ">>), NaNCell>>)]}

-----------------------------------------------------------------------------
(* process_invoices, called twice on the same folder and ledger *)

NoError == "none"
NotPrinted == -1

Locals0 ==
    /\ purchase_orders = <<>>
    /\ listing = <<>>
    /\ i = 0
    /\ text = <<>>
    /\ fields = <<>>
    /\ matched = PyFalse
    /\ results = <<>>
    /\ printed = NotPrinted
    /\ err = NoError
    /\ writes = 0

Init ==
    /\ folder \in Folders(MaxEntries)
    /\ ledgerSrc \in LedgerFiles
    /\ pc = "read_csv"
    /\ run = 1
    /\ output = NotWritten
    /\ prev_output = NotWritten
    /\ prev_printed = NotPrinted
    /\ prev_listing = <<>>
    /\ Locals0

\* what the statements other than the listing and the second call leave alone
Env == <<folder, ledgerSrc, run, prev_output, prev_printed, prev_listing, listing>>

\* line 69, pd.read_csv raises
ReadCsvRaises ==
    /\ pc = "read_csv"
    /\ ~ledgerSrc.exists
    /\ pc' = "raised"
    /\ err' = "FileNotFoundError"
    /\ UNCHANGED <<Env, purchase_orders, i, text, fields, matched, results, output,
                   printed, writes>>

\* lines 69-70
ReadCsv ==
    /\ pc = "read_csv"
    /\ ledgerSrc.exists
    /\ purchase_orders' = ledgerSrc.table
    /\ results' = <<>>
    /\ pc' = "listdir"
    /\ UNCHANGED <<Env, i, text, fields, matched, output, printed, err, writes>>

\* line 71, os.listdir(pdf_folder): the order is the file system's, and need
\* not be that of another call
ListDir ==
    /\ pc = "listdir"
    /\ \E order \in Enumerations(folder) : listing' = order
    /\ pc' = "for"
    /\ UNCHANGED <<folder, ledgerSrc, run, prev_output, prev_printed, prev_listing,
                   purchase_orders, i, text, fields, matched, results, output,
                   printed, err, writes>>

\* lines 71-73: the next entry does not end in .pdf
ForSkip ==
    /\ pc = "for"
    /\ i < Len(listing)
    /\ ~Qualifies(listing[i + 1].name)
    /\ i' = i + 1
    /\ UNCHANGED <<Env, pc, purchase_orders, text, fields, matched, results, output,
                   printed, err, writes>>

\* lines 71-74: the next entry ends in .pdf
ForEnter ==
    /\ pc = "for"
    /\ i < Len(listing)
    /\ Qualifies(listing[i + 1].name)
    /\ i' = i + 1
    /\ pc' = "extract_text"
    /\ UNCHANGED <<Env, purchase_orders, text, fields, matched, results, output,
                   printed, err, writes>>

\* line 71: the listing is exhausted
ForEnd ==
    /\ pc = "for"
    /\ i = Len(listing)
    /\ pc' = "to_csv"
    /\ UNCHANGED <<Env, purchase_orders, i, text, fields, matched, results, output,
                   printed, err, writes>>

\* line 75
ExtractText ==
    /\ pc = "extract_text"
    /\ ~extract_text_from_pdf(listing[i]).raised
    /\ text' = extract_text_from_pdf(listing[i]).text
    /\ pc' = "extract_fields"
    /\ UNCHANGED <<Env, purchase_orders, i, fields, matched, results, output,
                   printed, err, writes>>

\* line 75, extract_text_from_pdf raises
ExtractTextRaises ==
    /\ pc = "extract_text"
    /\ extract_text_from_pdf(listing[i]).raised
    /\ pc' = "raised"
    /\ err' = "ExtractionError"
    /\ UNCHANGED <<Env, purchase_orders, i, text, fields, matched, results, output,
                   printed, writes>>

\* line 76
ExtractFields ==
    /\ pc = "extract_fields"
    /\ fields' = extract_fields(text)
    /\ pc' = "match"
    /\ UNCHANGED <<Env, purchase_orders, i, text, matched, results, output,
                   printed, err, writes>>

\* line 77
Match ==
    /\ pc = "match"
    /\ ~match_against_po(fields, purchase_orders).raised
    /\ matched' = match_against_po(fields, purchase_orders).value
    /\ pc' = "append"
    /\ UNCHANGED <<Env, purchase_orders, i, text, fields, results, output,
                   printed, err, writes>>

\* line 77, purchase_orders['InvoiceNumber'] raises
MatchRaises ==
    /\ pc = "match"
    /\ match_against_po(fields, purchase_orders).raised
    /\ pc' = "raised"
    /\ err' = "KeyError"
    /\ UNCHANGED <<Env, purchase_orders, i, text, fields, matched, results, output,
                   printed, writes>>

\* lines 78-80
AppendResult ==
    /\ pc = "append"
    /\ fields' = Record(fields, listing[i].name, matched)
    /\ results' = AppendRecord(results, Record(fields, listing[i].name, matched))
    /\ pc' = "for"
    /\ UNCHANGED <<Env, purchase_orders, i, text, matched, output, printed, err, writes>>

\* line 81
ToCsv ==
    /\ pc = "to_csv"
    /\ output' = to_csv(output, DataFrame(results))
    /\ writes' = writes + 1
    /\ pc' = "print"
    /\ UNCHANGED <<Env, purchase_orders, i, text, fields, matched, results, printed, err>>

\* line 82
PrintSummary ==
    /\ pc = "print"
    /\ printed' = Len(results)
    /\ pc' = "done"
    /\ UNCHANGED <<Env, purchase_orders, i, text, fields, matched, results, output,
                   err, writes>>

\* the second call: nothing of the first is left but the output file
RunAgain ==
    /\ pc = "done"
    /\ run = 1
    /\ run' = 2
    /\ prev_output' = output
    /\ prev_printed' = printed
    /\ prev_listing' = listing
    /\ pc' = "read_csv"
    /\ purchase_orders' = <<>>
    /\ listing' = <<>>
    /\ i' = 0
    /\ text' = <<>>
    /\ fields' = <<>>
    /\ matched' = PyFalse
    /\ results' = <<>>
    /\ printed' = NotPrinted
    /\ err' = NoError
    /\ writes' = 0
    /\ UNCHANGED <<folder, ledgerSrc, output>>

Next ==
    \/ ReadCsvRaises \/ ReadCsv
    \/ ListDir
    \/ ForSkip \/ ForEnter \/ ForEnd
    \/ ExtractText \/ ExtractTextRaises
    \/ ExtractFields
    \/ Match \/ MatchRaises
    \/ AppendResult
    \/ ToCsv
    \/ PrintSummary
    \/ RunAgain

Spec == Init /\ [][Next]_vars

-----------------------------------------------------------------------------
(* extract_fields and match_against_po called directly *)

Idle ==
    /\ folder = {}
    /\ listing = <<>>
    /\ prev_listing = <<>>
    /\ ledgerSrc = [exists |-> FALSE, table |-> <<>>]
    /\ run = 0
    /\ i = 0
    /\ results = <<>>
    /\ output = NotWritten
    /\ printed = NotPrinted
    /\ err = NoError
    /\ writes = 0
    /\ prev_output = NotWritten
    /\ prev_printed = NotPrinted
    /\ matched = PyFalse

\* fields = extract_fields(text)
CallExtractFields ==
    /\ pc = "call_extract_fields"
    /\ fields' = extract_fields(text)
    /\ pc' = "call_match"
    /\ UNCHANGED <<Env, purchase_orders, i, text, matched, results, output,
                   printed, err, writes>>

\* matched = match_against_po(fields, purchase_orders)
CallMatch ==
    /\ pc = "call_match"
    /\ matched' = match_against_po(fields, purchase_orders).value
    /\ err' = IF match_against_po(fields, purchase_orders).raised THEN "KeyError" ELSE NoError
    /\ pc' = "returned"
    /\ UNCHANGED <<Env, purchase_orders, i, text, fields, results, output,
                   printed, writes>>

InitFields ==
    /\ text \in TextInputs
    /\ purchase_orders \in PipelineLedgers
    /\ fields = <<>>
    /\ pc = "call_extract_fields"
    /\ Idle

NextFields == CallExtractFields \/ CallMatch

SpecFields == InitFields /\ [][NextFields]_vars

InitMatch ==
    /\ fields \in FieldInputs
    /\ purchase_orders \in LedgerInputs
    /\ text = <<>>
    /\ pc = "call_match"
    /\ Idle

NextMatch == CallMatch

SpecMatch == InitMatch /\ [][NextMatch]_vars

-----------------------------------------------------------------------------
(* The patterns, stated as properties of the text *)

\* lit occurs in s at p, letter case ignored
OccursAt(lit, s, p) ==
    /\ p >= 1
    /\ p + Len(lit) - 1 <= Len(s)
    /\ Lower(SubSeq(s, p, p + Len(lit) - 1)) = Lower(lit)

Occurrences(lit, s) == {p \in 1..Len(s) : OccursAt(lit, s, p)}

\* whitespace with at most one separator anywhere in it
GapSpacedSep(gap, sep) ==
    /\ \A k \in 1..Len(gap) : gap[k] \in SpaceChars \cup sep
    /\ Cardinality({k \in 1..Len(gap) : gap[k] \in sep}) <= 1

\* an optional separator right after the keyword, then whitespace
GapSepFirst(gap, sep) ==
    \A k \in 1..Len(gap) : gap[k] \in SpaceChars \/ (k = 1 /\ gap[k] \in sep)

Gap(sepFirst, gap, sep) ==
    IF sepFirst THEN GapSepFirst(gap, sep) ELSE GapSpacedSep(gap, sep)

\* where a captured run may start for the keyword at p
RunStarts(sepFirst, lit, sep, cls, s, p) ==
    {q \in (p + Len(lit))..Len(s) :
        s[q] \in cls /\ Gap(sepFirst, SubSeq(s, p + Len(lit), q - 1), sep)}

\* the keyword occurs at p and a run follows it
MatchesAt(sepFirst, lit, sep, cls, s, p) ==
    OccursAt(lit, s, p) /\ RunStarts(sepFirst, lit, sep, cls, s, p) # {}

\* the maximal run of cls that starts at the least run start for the keyword at p
RunAfter(sepFirst, lit, sep, cls, s, p) ==
    LET starts == RunStarts(sepFirst, lit, sep, cls, s, p)
        q == CHOOSE x \in starts : \A y \in starts : x <= y
        r == CHOOSE x \in q..Len(s) :
                /\ \A k \in q..x : s[k] \in cls
                /\ x = Len(s) \/ s[x + 1] \notin cls
    IN  SubSeq(s, q, r)

\* the run after the leftmost keyword that a run follows; None without one
LeftmostRun(sepFirst, lit, sep, cls, s) ==
    LET at == {p \in 1..Len(s) : MatchesAt(sepFirst, lit, sep, cls, s, p)}
    IN  IF at = {} THEN None
        ELSE RunAfter(sepFirst, lit, sep, cls, s, CHOOSE p \in at : \A x \in at : p <= x)

Kw_Invoice == <<"i","n","v","o","i","c","e">>
Kw_Total == <<"t","o","t","a","l">>

FourKeys == <<"invoice_number", "vendor", "date", "total">>
SixColumns == <<"invoice_number", "vendor", "date", "total", "file", "matched">>

Extracted == pc \in {"call_match", "returned"}

-----------------------------------------------------------------------------
(* Claims *)

\* the str values of the ledger's InvoiceNumber column
StrValues(po) ==
    LET col == Get(po, "InvoiceNumber")
    IN  {col[k].val : k \in {x \in 1..Len(col) : col[x].kind = "str"}}

\* C1: match_against_po returns False for a record whose invoice_number is
\* absent, for every ledger (the empty one and one without the column
\* included); for a present one it returns True iff the string equals, exactly
\* (no case folding, no trimming, no type coercion), a value of the ledger's
\* InvoiceNumber column.
C1_ExactMatch ==
    pc = "returned" =>
        LET inv == Get(fields, "invoice_number")
        IN  IF inv = None
            THEN matched = PyFalse /\ err = NoError
            ELSE HasKey(purchase_orders, "InvoiceNumber") =>
                    /\ err = NoError
                    /\ matched \in {PyTrue, PyFalse}
                    /\ (matched = PyTrue) <=> (inv \in StrValues(purchase_orders))

\* a123 looked up in a ledger that holds A123: no match
C1_Witness ==
    /\ pc = "returned"
    /\ Get(fields, "invoice_number") = S_a123
    /\ HasKey(purchase_orders, "InvoiceNumber")
    /\ S_A123 \in StrValues(purchase_orders)
    /\ matched = PyFalse

\* C2 as stated: invoice_number is the word run captured by the leftmost match
\* of "Invoice, optional '#', optional whitespace, word characters"; absent
\* without a match.
C2_AsStated ==
    Extracted =>
        Get(fields, "invoice_number")
            = LeftmostRun(TRUE, Kw_Invoice, {"#"}, WordChars, text)

\* C2 amended: invoice_number is the maximal word run captured by the leftmost
\* match of "Invoice (any letter case), optional whitespace, optional '#',
\* optional whitespace, word characters"; absent without a match, so absent
\* for every text with no occurrence of Invoice.
C2_LeftmostInvoice ==
    Extracted =>
        /\ Get(fields, "invoice_number")
            = LeftmostRun(FALSE, Kw_Invoice, {"#"}, WordChars, text)
        /\ Occurrences(Kw_Invoice, text) = {} => Get(fields, "invoice_number") = None

\* "Invoice#12345abc" yields "12345abc"
C2_Witness ==
    /\ Extracted
    /\ text = Text_Unanchored
    /\ Get(fields, "invoice_number") = <<"1","2","3","4","5","a","b","c">>

\* C3 as stated: with more than one occurrence of Total, a total that is set
\* is the run that follows the first occurrence; a later occurrence never
\* supplies it.
C3_AsStated ==
    (Extracted /\ Cardinality(Occurrences(Kw_Total, text)) > 1
        /\ Get(fields, "total") # None) =>
        LET first == CHOOSE p \in Occurrences(Kw_Total, text) :
                        \A x \in Occurrences(Kw_Total, text) : p <= x
        IN  /\ MatchesAt(FALSE, Kw_Total, {":", "-"}, AmountChars, text, first)
            /\ Get(fields, "total")
                 = RunAfter(FALSE, Kw_Total, {":", "-"}, AmountChars, text, first)

\* C3 amended: with more than one occurrence of Total, total is the run of
\* digits/commas/periods, verbatim, after the leftmost occurrence that such a
\* run follows (after optional whitespace, an optional ':' or '-', optional
\* whitespace); a later occurrence supplies the value only when no earlier
\* one is followed by a run, and total is absent when none is.
C3_LeftmostTotal ==
    (Extracted /\ Cardinality(Occurrences(Kw_Total, text)) > 1) =>
        Get(fields, "total")
            = LeftmostRun(FALSE, Kw_Total, {":", "-"}, AmountChars, text)

\* "Total: 7\nTOTAL - 1,5." yields "7"
C3_Witness ==
    /\ Extracted
    /\ text = Text_TwoTotals
    /\ Get(fields, "total") = <<"7">>

\* a name whose last four characters are ".pdf" in any letter case
IsPdfName(n) ==
    /\ Len(n) >= 4
    /\ n[Len(n) - 3] = "."
    /\ n[Len(n) - 2] \in {"p", "P"}
    /\ n[Len(n) - 1] \in {"d", "D"}
    /\ n[Len(n)] \in {"f", "F"}

\* the first k entries of the listing that qualify, in enumeration order
QualifyingEntries(k) == SelectSeq(SubSeq(listing, 1, k), LAMBDA e : IsPdfName(e.name))

\* the entries of the folder that qualify
QualifyingInFolder == {e \in folder : IsPdfName(e.name)}

\* the positions from which the listing is known
Listed ==
    pc \in {"for", "extract_text", "extract_fields", "match", "append", "to_csv",
            "print", "done"}

NamesOf(entries) == [k \in 1..Len(entries) |-> entries[k].name]

InBody == pc \in {"extract_text", "extract_fields", "match", "append"}

\* the number of entries the loop is done with
Completed == IF InBody \/ (pc = "raised" /\ i > 0) THEN i - 1 ELSE i

\* the cells of a column of the output file
OutputColumn(name) ==
    LET c == CHOOSE x \in 1..Len(output.header) : output.header[x] = name
    IN  [r \in 1..Len(output.rows) |-> output.rows[r][c]]

\* C4: at every point of the loop the result table is the records of the
\* qualifying entries (name ending in .pdf, any letter case) visited so far, one
\* each, in enumeration order, file being the entry's name; a call that
\* completes has written one row per qualifying entry and printed that count.
C4_OneRecordPerPdf ==
    /\ pc # "read_csv" =>
          [k \in 1..Len(results) |-> Get(results[k], "file")]
              = NamesOf(QualifyingEntries(Completed))
    /\ Listed => Range(listing) = folder /\ Len(listing) = Cardinality(folder)
    /\ pc = "done" =>
          /\ output.written
          /\ Len(output.rows) = Len(QualifyingEntries(Len(listing)))
          /\ Len(output.rows) = Cardinality(QualifyingInFolder)
          /\ printed = Len(results)
          /\ printed = Len(output.rows)
          /\ Len(output.rows) > 0 =>
                OutputColumn("file") = NamesOf(QualifyingEntries(Len(listing)))

\* a completed call on a folder whose second entry in the listing does not
\* qualify and whose third has an upper-case extension
C4_Witness ==
    /\ pc = "done"
    /\ Len(listing) = 3
    /\ ~IsPdfName(listing[2].name)
    /\ listing[3].name = <<"B", ".", "P", "d", "F">>
    /\ Len(results) = 2
    /\ printed = 2

\* C5: a completed call has written a table whose columns are exactly
\* invoice_number, vendor, date, total, file, matched, also for a folder with
\* no qualifying entry.
C5_SixColumns ==
    pc = "done" => output.written /\ output.header = SixColumns

LedgerUnusable ==
    ~ledgerSrc.exists \/ ~HasKey(ledgerSrc.table, "InvoiceNumber")

\* C6: with a ledger that is missing or lacks the InvoiceNumber column the call
\* fails before any document is processed: no text is extracted, and the call
\* neither writes nor completes.
C6_FailsBeforeAnyDocument ==
    LedgerUnusable =>
        /\ pc \notin {"extract_fields", "match", "append", "to_csv", "print", "done"}
        /\ pc = "raised" => i = 0
        /\ writes = 0

\* the indexes of the qualifying entries whose text extraction raises
Unreadable ==
    {k \in 1..Len(listing) : IsPdfName(listing[k].name) /\ ~listing[k].readable}

\* C7: when text extraction raises for a qualifying entry the call ends there:
\* no later entry is visited, nothing is written, nothing is printed.  The
\* output is written at most once, after the last qualifying entry's record
\* was appended.
C7_ExtractionFailureAborts ==
    /\ (\E e \in QualifyingInFolder : ~e.readable) =>
          /\ writes = 0
          /\ printed = NotPrinted
          /\ pc \notin {"to_csv", "print", "done"}
          /\ run = 1 /\ output = NotWritten
    /\ \A k \in Unreadable :
          /\ i <= k
          /\ writes = 0
          /\ printed = NotPrinted
          /\ pc \notin {"to_csv", "print", "done"}
          /\ Len(results) <= Len(QualifyingEntries(k - 1))
          /\ run = 1 /\ output = NotWritten
    /\ err = "ExtractionError" => pc = "raised" /\ i \in Unreadable
    /\ writes <= 1
    /\ writes = 1 =>
          /\ pc \in {"print", "done"}
          /\ i = Len(listing)
          /\ Len(results) = Len(QualifyingEntries(Len(listing)))

\* extraction raised on the second entry, after a record was appended and with
\* an entry left
C7_Witness ==
    /\ pc = "raised"
    /\ err = "ExtractionError"
    /\ i = 2
    /\ Len(listing) = 3
    /\ Len(results) = 1
    /\ output = NotWritten

\* the number of times x occurs in seq
Count(seq, x) == Cardinality({k \in 1..Len(seq) : seq[k] = x})

\* C8 as stated: the second call on the same folder contents, texts and ledger
\* writes the identical table (same rows, same row order, same cells) and
\* prints the same count as the first.
C8_AsStated ==
    (run = 2 /\ pc = "done") =>
        /\ output = prev_output
        /\ printed = prev_printed

\* C8 amended: the second call on the same folder contents, texts and ledger
\* writes a table with the same columns and the same rows, each as many times,
\* and prints the same count as the first; the rows are in the order of each
\* call's own directory listing, so the two tables are identical when both
\* listings are in the same order.
C8_SecondRunSameRows ==
    (run = 2 /\ pc = "done") =>
        /\ printed = prev_printed
        /\ output.written /\ prev_output.written
        /\ output.header = prev_output.header
        /\ Len(output.rows) = Len(prev_output.rows)
        /\ \A k \in 1..Len(output.rows) :
              Count(output.rows, output.rows[k]) = Count(prev_output.rows, output.rows[k])
        /\ listing = prev_listing => output = prev_output

\* the second call listed the folder in another order and completed with the
\* same two rows, one matched and one not, in the other order
C8_Witness ==
    /\ run = 2
    /\ pc = "done"
    /\ listing # prev_listing
    /\ Len(output.rows) = 2
    /\ output.rows[1] = prev_output.rows[2]
    /\ output.rows[2] = prev_output.rows[1]
    /\ OutputColumn("matched") = << <<"T", "r", "u", "e">>, <<"F", "a", "l", "s", "e">> >>

\* no pattern of extract_fields matches the text
NoPatternMatch(t) ==
    /\ \A p \in 1..Len(t) : ~MatchesAt(FALSE, Kw_Invoice, {"#"}, WordChars, t, p)
    /\ \A p \in 1..Len(t) : ~MatchesAt(FALSE, Kw_Total, {":", "-"}, AmountChars, t, p)

\* C9: extract_fields returns exactly the keys invoice_number, vendor, date,
\* total, with vendor and date absent; a text no pattern matches yields four
\* absent fields; a record without invoice_number gets matched = False and no
\* exception, whatever the ledger.
C9_FourKeys ==
    /\ Extracted =>
          /\ Keys(fields) = FourKeys
          /\ Get(fields, "vendor") = None
          /\ Get(fields, "date") = None
          /\ NoPatternMatch(text) => \A k \in 1..4 : fields[k][2] = None
    /\ (pc = "returned" /\ Get(fields, "invoice_number") = None) =>
          matched = PyFalse /\ err = NoError

\* the empty text, matched against a ledger without the column
C9_Witness ==
    /\ pc = "returned"
    /\ text = <<>>
    /\ fields = EmptyFields
    /\ purchase_orders = LedgerNoColumn
    /\ matched = PyFalse
    /\ err = NoError

\* the record of an entry, from its text, its name and the ledger alone
RecordOf(entry, ledger) ==
    LET f == extract_fields(entry.text)
    IN  DictSet(DictSet(f, "file", entry.name), "matched",
                match_against_po(f, ledger).value)

IsPrefix(a, b) == Len(a) <= Len(b) /\ SubSeq(b, 1, Len(a)) = a

\* C10: the ledger is loaded at line 69 only, before the first text is
\* extracted, and stays as loaded; appending a record leaves the earlier ones
\* as they were; the record appended for an entry is a function of its text,
\* its name and the ledger.
C10_LedgerAndRecordsFrame ==
    [][/\ pc \notin {"read_csv", "done"} => purchase_orders' = purchase_orders
       /\ pc \notin {"listdir", "done"} => listing' = listing
       /\ pc = "extract_text" => purchase_orders = ledgerSrc.table
       /\ pc \in {"listdir", "for", "extract_text", "extract_fields", "match",
                  "append", "to_csv", "print"} => IsPrefix(results, results')
       /\ pc = "append" =>
             results' = Append(results, RecordOf(listing[i], ledgerSrc.table))]_vars

\* a second record was appended after a first one of another document
C10_Witness ==
    /\ pc = "for"
    /\ Len(results) = 2
    /\ Get(results[1], "invoice_number") = S_A1
    /\ Get(results[2], "invoice_number") = None
    /\ Get(results[1], "matched") = PyTrue

=============================================================================
